---- MODULE Spec2Model ----
(***************************************************************************)
(* Finance-copilot, data_pipeline: the multi-source triangulation engine   *)
(* (TriangulationEngine) and the three provider clients it calls           *)
(* (FREDClient, WorldBankClient, OECDClient), with the mapping tables and  *)
(* the fetch layer (RobustHTTPClient) the clients go through.              *)
(*                                                                         *)
(* Also the dataset generator (DatasetGenerator) that calls the engine, and *)
(* of the app: DataFetcher.triangulate, ChatEngine and model_loader.        *)
(*                                                                         *)
(* Specifications.  Spec: triangulate calls on one engine, step by step.   *)
(* SpecUnit: one direct call of a helper method of the engine, or of the   *)
(* app's triangulate.  SpecTolerance: the same call on two engines that    *)
(* differ in tolerance.  SpecFetch: one get call of the fetch layer, made  *)
(* directly or by fetch_metric of a provider client, request by request.   *)
(* SpecGenerate: one generate_dataset call, pair by pair.  SpecChat: calls *)
(* of ChatEngine and of model_loader, one after the other.                 *)
(*                                                                         *)
(* Numbers.  Python floats are modelled as exact rationals on a grid: the  *)
(* integer X stands for the number X / Scale.  Provider values are even    *)
(* integers, so that the average of two of them is again on the grid.      *)
(* Optional[T] is a sequence: <<>> is None, <<x>> is the value x.          *)
(***************************************************************************)
EXTENDS Integers, Sequences, FiniteSets, TLC

VARIABLES
    tolerance_percent,  \* TriangulationEngine.tolerance_percent (grid units)
    pc,                 \* position of the running triangulate call
    fred_data,          \* Optional[MacroDataPoint] of the running call
    wb_data,
    oecd_data,
    result,             \* Optional[TriangulatedResult]: what triangulate returned
    exc,                \* the exception that left triangulate, "none" if none
    raised_in,          \* Optional: the client whose fetch_metric raised it
    unexpected,         \* the clients whose response body had an unexpected shape
    call,               \* a direct call of a helper method: [fn, args, ret]
    again,              \* the running triangulate call is not the engine's first
    api_key,            \* FREDClient.api_key: Optional[str]
    http,               \* the RobustHTTPClient and its running get call
    fetch,              \* a provider client and its running fetch_metric call
    gen,                \* the running DatasetGenerator.generate_dataset call
    chat,               \* the ChatEngine: its history and its running call
    llm                 \* model_loader: _GLOBAL_MODEL and the calls made

vars == <<tolerance_percent, pc, fred_data, wb_data, oecd_data, result, exc, raised_in,
         unexpected, call, again, api_key, http, fetch, gen, chat, llm>>

\* the state of the engine, the clients and the fetch layer
pipeline_vars == <<tolerance_percent, pc, fred_data, wb_data, oecd_data, result, exc,
                  raised_in, unexpected, call, again, api_key, http, fetch>>

\* the state of the dataset generator and of the app
app_vars == <<gen, chat, llm>>

\* the helper method that was called ("none": none), its arguments, its return value
NoCall == [fn |-> "none", args |-> <<>>, ret |-> <<>>]
fn == call.fn
args == call.args
ret == call.ret

----------------------------------------------------------------------------
(* Bounds of the model *)

\* provider values are 2*k for k in 0..MaxVal
MaxVal == 2
\* observations per response body
MaxObs == 2
\* length of the list handed to _calculate_consensus in a direct call
MaxLen == 3
\* max_retries of a RobustHTTPClient constructed directly: 0..MaxRetries
MaxRetries == 2
\* length of the metrics list handed to generate_dataset: 0..MaxMetrics
MaxMetrics == 3
\* question_variants handed to generate_dataset: 0..MaxVariants
MaxVariants == 2
\* exchanges a ChatEngine holds before no further message is sent
MaxExchanges == 6

\* grid units per 1.0: the integer X stands for the float X / Scale
Scale == 2

None == <<>>
Some(x) == <<x>>

Values == {2 * k : k \in 0..MaxVal}
\* tolerance_percent of the engine: 0.5 (the default) and 50.0
Tolerances == {1, 100}

abs(x) == IF x < 0 THEN -x ELSE x

----------------------------------------------------------------------------
(* TriangulationEngine: the reconciliation algorithm *)

\* lines 46-55 without the branch for exactly one zero (lines 50-51)
_values_agree_relative_only(val1, val2) ==
    IF val1 = 0 /\ val2 = 0 THEN TRUE
    ELSE 200 * Scale * abs(val1 - val2) <= tolerance_percent * (abs(val1) + abs(val2))

\* lines 46-55 with ">=" for "<=" in lines 51 and 55
_values_agree_at_least(val1, val2) ==
    IF val1 = 0 /\ val2 = 0 THEN TRUE
    ELSE IF val1 = 0 \/ val2 = 0 THEN abs(val1 - val2) >= tolerance_percent
    ELSE 200 * Scale * abs(val1 - val2) >= tolerance_percent * (abs(val1) + abs(val2))

\* lines 46-55 with the difference taken relative to val1 alone: avg = abs(val1)
_values_agree_relative_to_first(val1, val2) ==
    IF val1 = 0 /\ val2 = 0 THEN TRUE
    ELSE IF val1 = 0 \/ val2 = 0 THEN abs(val1 - val2) <= tolerance_percent
    ELSE 100 * Scale * abs(val1 - val2) <= tolerance_percent * abs(val1)

_values_agree(val1, val2) ==
    IF val1 = 0 /\ val2 = 0 THEN TRUE
    ELSE IF val1 = 0 \/ val2 = 0 THEN abs(val1 - val2) <= tolerance_percent
    ELSE \* abs(val1 - val2) / avg * 100 <= tolerance_percent, avg > 0,
         \* with both sides multiplied by 2 * avg * Scale
         200 * Scale * abs(val1 - val2) <= tolerance_percent * (abs(val1) + abs(val2))

RECURSIVE insert_sorted(_, _)
insert_sorted(x, s) ==
    IF s = <<>> THEN <<x>>
    ELSE IF x <= Head(s) THEN <<x>> \o s
    ELSE <<Head(s)>> \o insert_sorted(x, Tail(s))

RECURSIVE sorted(_)
sorted(values) ==
    IF values = <<>> THEN <<>>
    ELSE insert_sorted(Head(values), sorted(Tail(values)))

\* lines 57-65 without the sort of line 61
_calculate_consensus_unsorted(values) ==
    IF values = <<>> THEN None
    ELSE LET n == Len(values)
         IN  IF n % 2 = 0
             THEN Some((values[(n \div 2 - 1) + 1] + values[(n \div 2) + 1]) \div 2)
             ELSE Some(values[(n \div 2) + 1])

\* Python lists are 0-based: sorted_values[i] is sorted_values[i + 1] here
_calculate_consensus(values) ==
    IF values = <<>> THEN None
    ELSE LET sorted_values == sorted(values)
             n == Len(sorted_values)
         IN  IF n % 2 = 0
             THEN Some((sorted_values[(n \div 2 - 1) + 1] + sorted_values[(n \div 2) + 1]) \div 2)
             ELSE Some(sorted_values[(n \div 2) + 1])

\* the (source, value) pairs of the values that are not None, in call order
valid_values_of(fred_val, wb_val, oecd_val) ==
    (IF fred_val # None THEN <<[src |-> "FRED", val |-> fred_val[1]]>> ELSE <<>>)
    \o (IF wb_val # None THEN <<[src |-> "World Bank", val |-> wb_val[1]]>> ELSE <<>>)
    \o (IF oecd_val # None THEN <<[src |-> "OECD", val |-> oecd_val[1]]>> ELSE <<>>)

\* an explanation string: its template, the sources it names as agreeing or as
\* the only ones, the source it names as differing, and the values it prints
Explanation(template, named, differs, printed) ==
    [template |-> template, named |-> named, differs |-> differs, printed |-> printed]

\* lines 99-111 with MEDIUM replaced by HIGH ("all available sources agree")
two_available_high(valid_values) ==
    LET src1 == valid_values[1].src
        val1 == valid_values[1].val
        src2 == valid_values[2].src
        val2 == valid_values[2].val
    IN  IF _values_agree(val1, val2)
        THEN [confidence |-> "HIGH",
              explanation |-> Explanation("agree within tolerance. Third source unavailable",
                                          <<src1, src2>>, None, <<val1, val2>>)]
        ELSE [confidence |-> "LOW",
              explanation |-> Explanation("disagree. Third source unavailable",
                                          <<src1, src2>>, None, <<val1, val2>>)]

\* lines 99-111: exactly two sources returned a value
two_available(valid_values) ==
    LET src1 == valid_values[1].src
        val1 == valid_values[1].val
        src2 == valid_values[2].src
        val2 == valid_values[2].val
    IN  IF _values_agree(val1, val2)
        THEN [confidence |-> "MEDIUM",
              explanation |-> Explanation("agree within tolerance. Third source unavailable",
                                          <<src1, src2>>, None, <<val1, val2>>)]
        ELSE [confidence |-> "LOW",
              explanation |-> Explanation("disagree. Third source unavailable",
                                          <<src1, src2>>, None, <<val1, val2>>)]

\* lines 113-147 with "elif agreements >= 1" replaced by "elif agreements >= 2"
three_available_two_pairs(fv, wv, ov) ==
    LET fred_wb_agree == _values_agree(fv, wv)
        fred_oecd_agree == _values_agree(fv, ov)
        wb_oecd_agree == _values_agree(wv, ov)
        agreements == (IF fred_wb_agree THEN 1 ELSE 0)
                      + (IF fred_oecd_agree THEN 1 ELSE 0)
                      + (IF wb_oecd_agree THEN 1 ELSE 0)
    IN  IF agreements = 3
        THEN [confidence |-> "HIGH",
              explanation |-> Explanation("All three sources agree",
                                          <<"FRED", "World Bank", "OECD">>, None, <<fv, wv, ov>>)]
        ELSE IF agreements >= 2
        THEN [confidence |-> "MEDIUM",
              explanation |-> Explanation("agree. {src} differs",
                                          <<"FRED", "World Bank">>, Some("OECD"), <<fv, wv, ov>>)]
        ELSE [confidence |-> "LOW",
              explanation |-> Explanation("All sources disagree significantly",
                                          <<>>, None, <<fv, wv, ov>>)]

\* lines 113-147: all three sources returned a value
three_available(fv, wv, ov) ==
    LET fred_wb_agree == _values_agree(fv, wv)
        fred_oecd_agree == _values_agree(fv, ov)
        wb_oecd_agree == _values_agree(wv, ov)
        \* sum([fred_wb_agree, fred_oecd_agree, wb_oecd_agree])
        agreements == (IF fred_wb_agree THEN 1 ELSE 0)
                      + (IF fred_oecd_agree THEN 1 ELSE 0)
                      + (IF wb_oecd_agree THEN 1 ELSE 0)
    IN  IF agreements = 3
        THEN [confidence |-> "HIGH",
              explanation |-> Explanation("All three sources agree",
                                          <<"FRED", "World Bank", "OECD">>, None, <<fv, wv, ov>>)]
        ELSE IF agreements >= 1
        THEN IF fred_wb_agree
             THEN [confidence |-> "MEDIUM",
                   explanation |-> Explanation("agree. {src} differs",
                                               <<"FRED", "World Bank">>, Some("OECD"), <<fv, wv, ov>>)]
             ELSE IF fred_oecd_agree
             THEN [confidence |-> "MEDIUM",
                   explanation |-> Explanation("agree. {src} differs",
                                               <<"FRED", "OECD">>, Some("World Bank"), <<fv, ov, wv>>)]
             ELSE [confidence |-> "MEDIUM",
                   explanation |-> Explanation("agree. {src} differs",
                                               <<"World Bank", "OECD">>, Some("FRED"), <<wv, ov, fv>>)]
        ELSE [confidence |-> "LOW",
              explanation |-> Explanation("All sources disagree significantly",
                                          <<>>, None, <<fv, wv, ov>>)]

\* lines 67-147 with "len(valid_values) == 0" replaced by "len(valid_values) <= 1"
_determine_confidence_no_single(fred_val, wb_val, oecd_val) ==
    LET valid_values == valid_values_of(fred_val, wb_val, oecd_val)
    IN  IF Len(valid_values) <= 1
        THEN [confidence |-> "NO_DATA",
              explanation |-> Explanation("No data available from any source.", <<>>, None, <<>>)]
        ELSE IF Len(valid_values) = 2
        THEN two_available(valid_values)
        ELSE three_available(fred_val[1], wb_val[1], oecd_val[1])

_determine_confidence(fred_val, wb_val, oecd_val) ==
    LET valid_values == valid_values_of(fred_val, wb_val, oecd_val)
    IN  IF Len(valid_values) = 0
        THEN [confidence |-> "NO_DATA",
              explanation |-> Explanation("No data available from any source.", <<>>, None, <<>>)]
        ELSE IF Len(valid_values) = 1
        THEN [confidence |-> "SINGLE_SOURCE",
              explanation |-> Explanation("Only {src} provided data", <<valid_values[1].src>>,
                                          None, <<valid_values[1].val>>)]
        ELSE IF Len(valid_values) = 2
        THEN two_available(valid_values)
        ELSE three_available(fred_val[1], wb_val[1], oecd_val[1])

----------------------------------------------------------------------------
(* What RobustHTTPClient.get hands to a provider client: a requests          *)
(* exception (any subclass of requests.RequestException: timeout, retries    *)
(* exhausted, HTTP error status), or a response whose JSON body is one of    *)
(* the shapes below.                                                         *)

RequestErrors == {"Timeout", "RetryError", "HTTPError 404"}

\* obs["value"] of one observation: a number (or numeric string), the string
\* ".", JSON null, a non-numeric string, or no "value" entry at all
ObsValues ==
    {[t |-> "num", v |-> x] : x \in Values}
    \cup {[t |-> k, v |-> 0] : k \in {"dot", "null", "text", "absent"}}

\* period labels, most recent first: an API lists one observation per period
PeriodLabels == <<"2024", "2023", "2022", "2021">>

\* one observation as drawn: its value, and whether the body labels its period
Observations == [value : ObsValues, has_date : BOOLEAN]

\* the observations of a body, most recent first, each with its period label
\* (None: the body has no label for it)
Dated(s) ==
    [i \in 1..Len(s) |->
        [value |-> s[i].value,
         date |-> IF s[i].has_date THEN Some(PeriodLabels[i]) ELSE None]]

ObsSeqs == {Dated(s) : s \in UNION {[1..n -> Observations] : n \in 0..MaxObs}}

\* JSON bodies.  "well_formed" is the provider's own shape carrying the
\* observations obs, most recent first; "obs_null" and "wrong_container" are that shape with
\* null, or a non-empty container of the wrong type, where the observations
\* belong; "null", "array" and "object" are a JSON null, an array of fewer than
\* two elements and an object without any of the expected keys.
Bodies ==
    {[t |-> k, obs |-> <<>>] : k \in {"null", "array", "object", "obs_null", "wrong_container"}}
    \cup {[t |-> "well_formed", obs |-> s] : s \in ObsSeqs}

HttpOutcomes ==
    {[ok |-> FALSE, error |-> e, data |-> [t |-> "null", obs |-> <<>>]] : e \in RequestErrors}
    \cup {[ok |-> TRUE, error |-> "", data |-> b] : b \in Bodies}

----------------------------------------------------------------------------
(* Provider clients: fetch_metric *)

MacroDataPoint(source, value, period, error) ==
    [source |-> source, value |-> value, period |-> period, error |-> error]

\* the two ways a Python call ends
Return(x) == [exc |-> "none", value |-> x]
Raise(e) == [exc |-> e, value |-> None]

\* Python float(x) of a JSON value: a number or a numeric string converts,
\* None is a TypeError, any other string a ValueError
float(x) ==
    IF x.t = "num" THEN Return(x.v)
    ELSE IF x.t = "null" THEN Raise("TypeError")
    ELSE Raise("ValueError")

RECURSIVE FRED_observations(_)
FRED_observations(observations) ==
    IF observations = <<>>
    THEN Return(MacroDataPoint("FRED", None, "N/A", Some("All observations are missing values")))
    ELSE LET obs == Head(observations)
         IN  IF obs.value.t = "absent" THEN Raise("KeyError")
             ELSE IF obs.value.t = "dot" THEN FRED_observations(Tail(observations))
             ELSE IF float(obs.value).exc # "none" THEN Raise(float(obs.value).exc)
             ELSE IF obs.date = None THEN Raise("KeyError")
             ELSE Return(MacroDataPoint("FRED", Some(float(obs.value).value), obs.date[1], None))

FRED_fetch_metric(response) ==
    IF ~response.ok
    THEN Return(MacroDataPoint("FRED", None, "N/A", Some(response.error)))
    ELSE LET data == response.data
         IN  IF data.t = "null" THEN Raise("TypeError")
             ELSE IF data.t \in {"array", "object", "obs_null"} \/ (data.t = "well_formed" /\ data.obs = <<>>)
             THEN Return(MacroDataPoint("FRED", None, "N/A", Some("No observations found")))
             ELSE IF data.t = "wrong_container" THEN Raise("TypeError")
             ELSE FRED_observations(data.obs)

RECURSIVE WorldBank_observations(_)
WorldBank_observations(observations) ==
    IF observations = <<>>
    THEN Return(MacroDataPoint("World Bank", None, "N/A", Some("All values are null")))
    ELSE LET obs == Head(observations)
         IN  IF obs.value.t \in {"absent", "null"} THEN WorldBank_observations(Tail(observations))
             ELSE IF float(obs.value).exc # "none" THEN Raise(float(obs.value).exc)
             ELSE Return(MacroDataPoint("World Bank", Some(float(obs.value).value),
                                        IF obs.date = None THEN "N/A" ELSE obs.date[1], None))

\* lines 31-127 with "except requests.HTTPError" in line 115
WorldBank_fetch_metric_only_http_error(response) ==
    IF ~response.ok
    THEN IF response.error \in {"HTTPError", "HTTPError 404"}
         THEN Return(MacroDataPoint("World Bank", None, "N/A", Some(response.error)))
         ELSE Raise(response.error)
    ELSE LET data == response.data
         IN  IF data.t \in {"null", "array", "object"}
             THEN Return(MacroDataPoint("World Bank", None, "N/A", Some("Invalid API response format")))
             ELSE IF data.t = "obs_null" \/ (data.t = "well_formed" /\ data.obs = <<>>)
             THEN Return(MacroDataPoint("World Bank", None, "N/A", Some("No data available")))
             ELSE IF data.t = "wrong_container" THEN Raise("AttributeError")
             ELSE WorldBank_observations(data.obs)

WorldBank_fetch_metric(response) ==
    IF ~response.ok
    THEN Return(MacroDataPoint("World Bank", None, "N/A", Some(response.error)))
    ELSE LET data == response.data
         IN  IF data.t \in {"null", "array", "object"}
             THEN Return(MacroDataPoint("World Bank", None, "N/A", Some("Invalid API response format")))
             ELSE IF data.t = "obs_null" \/ (data.t = "well_formed" /\ data.obs = <<>>)
             THEN Return(MacroDataPoint("World Bank", None, "N/A", Some("No data available")))
             ELSE IF data.t = "wrong_container" THEN Raise("AttributeError")
             ELSE WorldBank_observations(data.obs)

OECD_fetch_metric(response) ==
    IF ~response.ok
    THEN Return(MacroDataPoint("OECD", None, "N/A", Some(response.error)))
    ELSE LET data == response.data
         IN  IF data.t \in {"null", "array"} THEN Raise("AttributeError")
             ELSE IF data.t = "object"
             THEN Return(MacroDataPoint("OECD", None, "N/A", Some("No datasets in response")))
             ELSE IF data.t = "obs_null" \/ (data.t = "well_formed" /\ data.obs = <<>>)
             THEN Return(MacroDataPoint("OECD", None, "N/A", Some("No observations in dataset")))
             ELSE IF data.t = "wrong_container" THEN Raise("AttributeError")
             ELSE \* observations[sorted(observations.keys())[-1]]: the keys end in the
                  \* index of the period, so the last key is the most recent period
                  LET last == Head(data.obs)
                      period == IF last.date = None THEN "N/A" ELSE last.date[1]
                  IN  IF last.value.t = "absent" THEN Raise("IndexError")
                      ELSE IF last.value.t = "null"
                      THEN Return(MacroDataPoint("OECD", None, period, None))
                      ELSE IF float(last.value).exc # "none" THEN Raise(float(last.value).exc)
                      ELSE Return(MacroDataPoint("OECD", Some(float(last.value).value), period, None))

----------------------------------------------------------------------------
(* TriangulationEngine.triangulate *)

\* Python compares strings by code point: digits sort before "N"
period_order == <<"2021", "2022", "2023", "2024", "N/A">>
period_rank(p) == CHOOSE i \in 1..Len(period_order) : period_order[i] = p
max_period(periods) ==
    CHOOSE p \in periods : \A q \in periods : period_rank(q) <= period_rank(p)

\* "[v for v in values if v]": a value of 0.0 is dropped with the None ones
RECURSIVE not_none_truthy(_)
not_none_truthy(values) ==
    IF values = <<>> THEN <<>>
    ELSE (IF Head(values) # None /\ Head(values) # Some(0) THEN Head(values) ELSE <<>>)
         \o not_none_truthy(Tail(values))

\* line 189: [v for v in values if v is not None]
RECURSIVE not_none(_)
not_none(values) ==
    IF values = <<>> THEN <<>>
    ELSE (IF Head(values) # None THEN Head(values) ELSE <<>>) \o not_none(Tail(values))

\* lines 196-203 with the test of line 202 on wb_data instead of oecd_data
sources_used_of_wb_twice(fred_value, wb_value, oecd_value) ==
    (IF fred_value # None THEN <<"FRED">> ELSE <<>>)
    \o (IF wb_value # None THEN <<"World Bank">> ELSE <<>>)
    \o (IF wb_value # None THEN <<"OECD">> ELSE <<>>)

\* lines 196-203
sources_used_of(fred_value, wb_value, oecd_value) ==
    (IF fred_value # None THEN <<"FRED">> ELSE <<>>)
    \o (IF wb_value # None THEN <<"World Bank">> ELSE <<>>)
    \o (IF oecd_value # None THEN <<"OECD">> ELSE <<>>)

\* lines 183-221 with the tests of lines 198-203 on "error is None" instead of
\* "value is not None"
TriangulatedResult_by_error(fred, wb, oecd) ==
    LET dc == _determine_confidence(fred.value, wb.value, oecd.value)
        valid_values == not_none(<<fred.value, wb.value, oecd.value>>)
        periods == {d.period : d \in {fred, wb, oecd}} \ {"N/A"}
    IN  [period |-> IF periods # {} THEN max_period(periods) ELSE "N/A",
         confidence |-> dc.confidence,
         consensus_value |-> _calculate_consensus(valid_values),
         fred_value |-> fred.value,
         worldbank_value |-> wb.value,
         oecd_value |-> oecd.value,
         explanation |-> dc.explanation,
         sources_used |-> (IF fred.error = None THEN <<"FRED">> ELSE <<>>)
                          \o (IF wb.error = None THEN <<"World Bank">> ELSE <<>>)
                          \o (IF oecd.error = None THEN <<"OECD">> ELSE <<>>),
         disagreement_details |-> IF dc.confidence \in {"HIGH", "MEDIUM"}
                                  THEN None ELSE Some(dc.explanation)]

\* lines 183-221 with "confidence in [ConfidenceLevel.HIGH]" in line 219
TriangulatedResult_details_unless_high(fred, wb, oecd) ==
    LET dc == _determine_confidence(fred.value, wb.value, oecd.value)
        valid_values == not_none(<<fred.value, wb.value, oecd.value>>)
        periods == {d.period : d \in {fred, wb, oecd}} \ {"N/A"}
    IN  [period |-> IF periods # {} THEN max_period(periods) ELSE "N/A",
         confidence |-> dc.confidence,
         consensus_value |-> _calculate_consensus(valid_values),
         fred_value |-> fred.value,
         worldbank_value |-> wb.value,
         oecd_value |-> oecd.value,
         explanation |-> dc.explanation,
         sources_used |-> sources_used_of(fred.value, wb.value, oecd.value),
         disagreement_details |-> IF dc.confidence \in {"HIGH"}
                                  THEN None ELSE Some(dc.explanation)]

\* the TriangulatedResult built from the three data points (lines 183-221)
TriangulatedResult(fred, wb, oecd) ==
    LET dc == _determine_confidence(fred.value, wb.value, oecd.value)
        valid_values == not_none(<<fred.value, wb.value, oecd.value>>)
        periods == {d.period : d \in {fred, wb, oecd}} \ {"N/A"}
    IN  [period |-> IF periods # {} THEN max_period(periods) ELSE "N/A",
         confidence |-> dc.confidence,
         consensus_value |-> _calculate_consensus(valid_values),
         fred_value |-> fred.value,
         worldbank_value |-> wb.value,
         oecd_value |-> oecd.value,
         explanation |-> dc.explanation,
         sources_used |-> sources_used_of(fred.value, wb.value, oecd.value),
         disagreement_details |-> IF dc.confidence \in {"HIGH", "MEDIUM"}
                                  THEN None ELSE Some(dc.explanation)]

----------------------------------------------------------------------------
(* mappings.py: the mapping tables, and the lookups the clients make in them *)

COUNTRY_MAPPINGS ==
    [USA |-> [name |-> "United States", fred |-> "USA", wb |-> "USA", oecd |-> "USA"],
     IND |-> [name |-> "India", fred |-> "IND", wb |-> "IND", oecd |-> "IND"],
     EUU |-> [name |-> "European Union", fred |-> "EUU", wb |-> "EUU", oecd |-> "EA20"],
     CHN |-> [name |-> "China", fred |-> "CHN", wb |-> "CHN", oecd |-> "CHN"]]

METRIC_MAPPINGS ==
    [gdp_growth |->
        [fred |-> [USA |-> "A191RL1Q225SBEA", IND |-> "INDGDPRQPSMEI",
                   EUU |-> "CLVMNACSCAB1GQEA19", CHN |-> "CHNGDPRQPSMEI",
                   default |-> "CLVMNACSCAB1GQ{country}"],
         worldbank |-> "NY.GDP.MKTP.KD.ZG",
         oecd |-> "QNA/B1_GE.{country}.VOBARSA.Q"],
     inflation |->
        [fred |-> [USA |-> "CPIAUCSL", IND |-> "INDCPIALLMINMEI",
                   EUU |-> "CP0000EZ19M086NEST", CHN |-> "CHNCPIALLMINMEI",
                   default |-> "CPALTT01{country}M659N"],
         worldbank |-> "FP.CPI.TOTL.ZG",
         oecd |-> "PRICES_CPI/CPALTT01.{country}.GP.A"],
     unemployment |->
        [fred |-> [USA |-> "UNRATE", IND |-> "LMUNRRTTINQ156S",
                   EUU |-> "LRHUTTTTEZM156S", CHN |-> "LMUNRRTTCNM156S",
                   default |-> "LRUN64TT{country}Q156S"],
         worldbank |-> "SL.UEM.TOTL.ZS",
         oecd |-> "LFS_SEXAGE_I_R/{country}.MW.Y15T64.UR.A"],
     interest_rate |->
        [fred |-> [USA |-> "FEDFUNDS", IND |-> "INDIRLTLT01STM",
                   EUU |-> "ECBMRRFR", CHN |-> "INTDSRCNM193N",
                   default |-> "IR3TIB01{country}M156N"],
         worldbank |-> "FR.INR.RINR",
         oecd |-> "MEI_FIN/{country}.IRSTCI.ST.M"]]

\* str.format(country=...): the template with the country code filled in; a
\* string without a placeholder is a template filled with nothing
format(template, country) == [template |-> template, country |-> country]
literal(text) == format(text, "")

\* COUNTRY_MAPPINGS.get(country_code, {"name": country_code})
country_info_of(country_code) ==
    IF country_code \in DOMAIN COUNTRY_MAPPINGS
    THEN COUNTRY_MAPPINGS[country_code]
    ELSE [name |-> country_code]

\* country_info.get(key, country_code)
provider_country(country_code, key) ==
    LET country_info == country_info_of(country_code)
    IN  IF key \in DOMAIN country_info THEN country_info[key] ELSE country_code

\* FREDClient._get_series_id
_get_series_id(metric, country_code) ==
    LET metric_config == METRIC_MAPPINGS[metric].fred
    IN  IF country_code \in DOMAIN metric_config
        THEN literal(metric_config[country_code])
        ELSE format(IF "default" \in DOMAIN metric_config THEN metric_config["default"] ELSE "",
                    country_code)

\* what a client asks the fetch layer for: the part of the URL and of the
\* parameters that depends on the metric, the country and the API key
FRED_request(metric, country_code) ==
    [url |-> literal("series/observations"),
     series_id |-> _get_series_id(metric, country_code),
     api_key |-> api_key]

WorldBank_request(metric, country_code) ==
    [url |-> format("country/{wb_country}/indicator/{indicator}",
                    provider_country(country_code, "wb")),
     series_id |-> literal(METRIC_MAPPINGS[metric].worldbank),
     api_key |-> None]

OECD_request(metric, country_code) ==
    [url |-> literal("{dataset_path}"),
     series_id |-> format(METRIC_MAPPINGS[metric].oecd, provider_country(country_code, "oecd")),
     api_key |-> None]

----------------------------------------------------------------------------
(* http_client.py: RobustHTTPClient.  session.get sends the request through  *)
(* the HTTPAdapter mounted with Retry(total = max_retries, status_forcelist, *)
(* allowed_methods = GET); every other option of Retry has its default:      *)
(* raise_on_status = True, respect_retry_after_header = True.                *)

\* RobustHTTPClient(max_retries = 3): what MacroDataClient.__init__ constructs
DefaultMaxRetries == 3

status_forcelist == {429, 500, 502, 503, 504}
\* Retry.RETRY_AFTER_STATUS_CODES of urllib3
RETRY_AFTER_STATUS_CODES == {413, 429, 503}

\* what the server does with one request: no answer within the timeout, or a
\* response with a status and possibly a Retry-After header
Statuses == {200, 404, 413, 429, 500, 502, 503, 504}
NoAnswer == [t |-> "none", status |-> 0, retry_after |-> FALSE]
ServerAnswers ==
    {[t |-> "timeout", status |-> 0, retry_after |-> FALSE]}
    \cup {[t |-> "response", status |-> st, retry_after |-> FALSE] : st \in Statuses}
    \cup {[t |-> "response", status |-> st, retry_after |-> TRUE] : st \in RETRY_AFTER_STATUS_CODES}

\* Retry.is_retry for a GET request
is_retry(total, answer) ==
    \/ answer.status \in status_forcelist
    \/ /\ total # 0
       /\ answer.retry_after
       /\ answer.status \in RETRY_AFTER_STATUS_CODES

\* Response.raise_for_status raises HTTPError for 4xx and 5xx
is_error_status(status) == 400 <= status /\ status < 600

\* the client and its get call: pc is "new" (not constructed), "idle",
\* "sleep" (get is entered), "send" (a request is to be sent), "returned" or
\* "failed"; total is what is left of Retry.total; sent
\* counts the requests sent by this call; last is the answer to the latest
\* one; error names the exception get raised; slept: the call's
\* time.sleep(rate_limit_delay) has completed; timed_out: a request of the
\* call got no answer within the timeout
NoGet ==
    [pc |-> "new", max_retries |-> DefaultMaxRetries, total |-> 0, sent |-> 0,
     last |-> NoAnswer, only_503 |-> TRUE, error |-> "", slept |-> FALSE,
     timed_out |-> FALSE]

\* a provider client and its fetch_metric call: pc is "new" (nothing is
\* constructed), "ready", "get" or "done"
Providers == {"FRED", "World Bank", "OECD"}
NoRequest == [url |-> literal(""), series_id |-> literal(""), api_key |-> None]
NoBody == [t |-> "null", obs |-> <<>>]
NoFetch ==
    [pc |-> "new", client |-> "none", metric |-> "", country_code |-> "",
     request |-> NoRequest, body |-> NoBody, ret |-> None, exc |-> "none"]

\* the generate_dataset call: i and j are the positions of the loops over
\* countries and metrics; raised holds the pairs <<i, j>> whose processing
\* raised, logged the errors logged
NoGen ==
    [pc |-> "idle", countries |-> <<>>, metrics |-> <<>>, question_variants |-> 0,
     include_multi_turn |-> FALSE, i |-> 0, j |-> 0, country_results |-> <<>>,
     samples |-> <<>>, raised |-> {}, logged |-> <<>>]

\* ChatEngine(): history is the list of ChatMessage, as [role, content]; pc is
\* "idle" or, inside generate_response, "generate"; ret is what the last
\* generate_response returned
NoChat == [pc |-> "idle", history |-> <<>>, ret |-> ""]

\* model_loader after import: loaded is "_GLOBAL_MODEL is not None"; fn, ret
\* and exc are the last call, what it returned and the exception that left it;
\* failed: a load or an inference failed in it; attempted: it constructed
\* Llama; loads counts the models constructed since the last failure
NoModel ==
    [loaded |-> FALSE, fn |-> "none", ret |-> "", exc |-> "none", failed |-> FALSE,
     attempted |-> FALSE, loads |-> 0]

----------------------------------------------------------------------------
(* The part of a body a client reads has an unexpected shape: a missing key, *)
(* a non-numeric value, a wrong container type.  The provider's own marker   *)
(* for a missing value ("." for FRED, null for the World Bank and the OECD)  *)
(* and an empty list of observations are expected shapes.                    *)

RECURSIVE FirstRead(_, _)
FirstRead(observations, markers) ==
    IF observations = <<>> THEN <<>>
    ELSE IF Head(observations).value.t \in markers THEN FirstRead(Tail(observations), markers)
    ELSE <<Head(observations)>>

UnexpectedShape(source, response) ==
    /\ response.ok
    /\ LET data == response.data
       IN  \/ data.t \in {"null", "array", "object", "wrong_container"}
           \/ /\ data.t = "well_formed"
              /\ source = "FRED"
              /\ \E o \in {FirstRead(data.obs, {"dot"})} \ {<<>>} :
                     o[1].value.t # "num" \/ o[1].date = None
           \/ /\ data.t = "well_formed"
              /\ source = "World Bank"
              /\ \E o \in {FirstRead(data.obs, {"null"})} \ {<<>>} : o[1].value.t # "num"
           \/ /\ data.t = "well_formed"
              /\ source = "OECD"
              /\ data.obs # <<>>
              /\ Head(data.obs).value.t \notin {"num", "null"}

----------------------------------------------------------------------------
(* The triangulate call, step by step *)

\* what fetch_metric of each client does with each outcome of get: what it
\* returns or raises, and whether the body had an unexpected shape
FRED_outcomes ==
    {[out |-> FRED_fetch_metric(response), unexpected |-> UnexpectedShape("FRED", response)] :
        response \in HttpOutcomes}
WorldBank_outcomes ==
    {[out |-> WorldBank_fetch_metric(response),
      unexpected |-> UnexpectedShape("World Bank", response)] : response \in HttpOutcomes}
OECD_outcomes ==
    {[out |-> OECD_fetch_metric(response), unexpected |-> UnexpectedShape("OECD", response)] :
        response \in HttpOutcomes}

Init ==
    /\ tolerance_percent \in Tolerances
    /\ pc = "idle"
    /\ fred_data = None
    /\ wb_data = None
    /\ oecd_data = None
    /\ result = None
    /\ exc = "none"
    /\ raised_in = None
    /\ unexpected = {}
    /\ call = NoCall
    /\ again = FALSE
    /\ api_key = Some("key")
    /\ http = NoGet
    /\ fetch = NoFetch
    /\ gen = NoGen
    /\ chat = NoChat
    /\ llm = NoModel

\* triangulate with the data points kept on the engine from call to call
Call_keeps_data ==
    /\ pc \in {"idle", "returned", "raised"}
    /\ pc' = "fetch_fred"
    /\ result' = None
    /\ exc' = "none"
    /\ raised_in' = None
    /\ unexpected' = {}
    /\ again' = (pc # "idle")
    /\ UNCHANGED <<app_vars, tolerance_percent, fred_data, wb_data, oecd_data, call, api_key, http, fetch>>

\* a caller calls triangulate (again)
Call ==
    /\ pc \in {"idle", "returned", "raised"}
    /\ pc' = "fetch_fred"
    /\ fred_data' = None
    /\ wb_data' = None
    /\ oecd_data' = None
    /\ result' = None
    /\ exc' = "none"
    /\ raised_in' = None
    /\ unexpected' = {}
    /\ again' = (pc # "idle")
    /\ UNCHANGED <<app_vars, tolerance_percent, call, api_key, http, fetch>>

\* line 171
FetchFRED ==
    /\ pc = "fetch_fred"
    /\ \E outcome \in FRED_outcomes :
          LET out == outcome.out
          IN  /\ unexpected' = IF outcome.unexpected
                               THEN unexpected \cup {"FRED"} ELSE unexpected
              /\ IF out.exc = "none"
                 THEN /\ fred_data' = Some(out.value)
                      /\ pc' = "fetch_wb"
                      /\ UNCHANGED <<app_vars, exc, raised_in>>
                 ELSE /\ exc' = out.exc
                      /\ raised_in' = Some("FRED")
                      /\ pc' = "raised"
                      /\ UNCHANGED fred_data
    /\ UNCHANGED <<app_vars, tolerance_percent, wb_data, oecd_data, result, call, again, api_key, http, fetch>>

\* line 172
FetchWorldBank ==
    /\ pc = "fetch_wb"
    /\ \E outcome \in WorldBank_outcomes :
          LET out == outcome.out
          IN  /\ unexpected' = IF outcome.unexpected
                               THEN unexpected \cup {"World Bank"} ELSE unexpected
              /\ IF out.exc = "none"
                 THEN /\ wb_data' = Some(out.value)
                      /\ pc' = "fetch_oecd"
                      /\ UNCHANGED <<app_vars, exc, raised_in>>
                 ELSE /\ exc' = out.exc
                      /\ raised_in' = Some("World Bank")
                      /\ pc' = "raised"
                      /\ UNCHANGED wb_data
    /\ UNCHANGED <<app_vars, tolerance_percent, fred_data, oecd_data, result, call, again, api_key, http, fetch>>

\* line 173
FetchOECD ==
    /\ pc = "fetch_oecd"
    /\ \E outcome \in OECD_outcomes :
          LET out == outcome.out
          IN  /\ unexpected' = IF outcome.unexpected
                               THEN unexpected \cup {"OECD"} ELSE unexpected
              /\ IF out.exc = "none"
                 THEN /\ oecd_data' = Some(out.value)
                      /\ pc' = "build"
                      /\ UNCHANGED <<app_vars, exc, raised_in>>
                 ELSE /\ exc' = out.exc
                      /\ raised_in' = Some("OECD")
                      /\ pc' = "raised"
                      /\ UNCHANGED oecd_data
    /\ UNCHANGED <<app_vars, tolerance_percent, fred_data, wb_data, result, call, again, api_key, http, fetch>>

\* lines 183-221
Return_result ==
    /\ pc = "build"
    /\ result' = Some(TriangulatedResult(fred_data[1], wb_data[1], oecd_data[1]))
    /\ pc' = "returned"
    /\ UNCHANGED <<app_vars, tolerance_percent, fred_data, wb_data, oecd_data, exc, raised_in,
                   unexpected, call, again, api_key, http, fetch>>

Next == Call \/ FetchFRED \/ FetchWorldBank \/ FetchOECD \/ Return_result

Spec == Init /\ [][Next]_vars

----------------------------------------------------------------------------
(* The app's own triangulation: DataFetcher.triangulate of                   *)
(* src/app/data_fetcher.py, as a function of the three data points its       *)
(* fetch_fred, fetch_worldbank and fetch_oecd returned.                      *)

\* the greatest of a non-empty set of integers
Max(S) == CHOOSE x \in S : \A y \in S : y <= x

RECURSIVE sum(_)
sum(values) == IF values = <<>> THEN 0 ELSE Head(values) + sum(Tail(values))

\* sources_used of lines 340-351, without the printed values
app_sources_used(fred, wb, oecd) ==
    (IF fred.value # None THEN <<"FRED">> ELSE <<>>)
    \o (IF wb.value # None THEN <<"World Bank">> ELSE <<>>)
    \o (IF oecd.value # None THEN <<"OECD">> ELSE <<>>)

\* lines 373-383: diff and max_diff are compared with their limits after both
\* sides are multiplied by the positive denominator (0.1 is Scale / 10)
app_confidence(values) ==
    IF Len(values) = 1 THEN "single_source"
    ELSE IF Len(values) = 2
    THEN IF 1000 * abs(values[1] - values[2])
               <= 20 * Max({10 * abs(values[1]), 10 * abs(values[2]), Scale})
         THEN "high" ELSE "medium"
    ELSE IF 1000 * Max({abs(3 * values[i] - sum(values)) : i \in 1..3})
               <= 15 * Max({10 * abs(sum(values)), 3 * Scale})
         THEN "high" ELSE "medium"

\* line 371 with the middle of the sorted values for the mean
app_consensus_median(values) ==
    [t |-> "computed", num |-> _calculate_consensus(values)[1], den |-> 1]

\* line 371: sum(values) / len(values), as the fraction num / den
app_consensus(values) == [t |-> "computed", num |-> sum(values), den |-> Len(values)]

\* lines 386-387: the first period that is not "N/A"
app_period(periods) ==
    LET known == SelectSeq(periods, LAMBDA q : q # "N/A")
    IN  IF known # <<>> THEN known[1] ELSE "Latest"

\* lines 330-401; the value cached for (metric, country) is not modelled
\* beyond its being the cached one
DataFetcher_triangulate(fred, wb, oecd) ==
    LET values == not_none(<<fred.value, wb.value, oecd.value>>)
    IN  IF Len(values) = 0
        THEN [period |-> "2024 (cached)",
              confidence |-> "fallback",
              consensus_value |-> [t |-> "cached", num |-> 0, den |-> 1],
              fred_value |-> None,
              worldbank_value |-> None,
              oecd_value |-> None,
              sources |-> <<>>]
        ELSE [period |-> app_period(<<fred.period, wb.period, oecd.period>>),
              confidence |-> app_confidence(values),
              consensus_value |-> app_consensus(values),
              fred_value |-> fred.value,
              worldbank_value |-> wb.value,
              oecd_value |-> oecd.value,
              sources |-> app_sources_used(fred, wb, oecd)]

----------------------------------------------------------------------------
(* Direct calls of the engine's helper methods, as a unit test makes them:   *)
(* one call, on an engine constructed with any of a wider range of           *)
(* tolerances.  The methods are pure, so one call per behaviour shows all.   *)

\* values of either sign, and zero
UnitValues == {2 * k : k \in -MaxVal..MaxVal}
\* tolerance_percent: negative, zero, 0.5, 1.0, 2.0, 50.0, 75.0, 200.0
UnitTolerances == {-1, 0, 1, 2, 4, 100, 150, 400}
\* the lists of n values
RECURSIVE ListsOfLen(_)
ListsOfLen(n) ==
    IF n = 0 THEN {<<>>}
    ELSE {Append(s, x) : s \in ListsOfLen(n - 1), x \in UnitValues}

ValueLists == UNION {ListsOfLen(n) : n \in 0..MaxLen}
OptionalValues == {None} \cup {Some(x) : x \in UnitValues}

InitUnit ==
    /\ tolerance_percent \in UnitTolerances
    /\ pc = "idle"
    /\ fred_data = None
    /\ wb_data = None
    /\ oecd_data = None
    /\ result = None
    /\ exc = "none"
    /\ raised_in = None
    /\ unexpected = {}
    /\ call = NoCall
    /\ again = FALSE
    /\ api_key = Some("key")
    /\ http = NoGet
    /\ fetch = NoFetch
    /\ gen = NoGen
    /\ chat = NoChat
    /\ llm = NoModel

Call_values_agree ==
    /\ fn = "none"
    /\ \E val1 \in UnitValues, val2 \in UnitValues :
          call' = [fn |-> "_values_agree", args |-> <<val1, val2>>,
                   ret |-> _values_agree(val1, val2)]
    /\ UNCHANGED <<app_vars, tolerance_percent, pc, fred_data, wb_data, oecd_data, result, exc,
                   raised_in, unexpected, again, api_key, http, fetch>>

Call_calculate_consensus ==
    /\ fn = "none"
    /\ \E values \in ValueLists :
          call' = [fn |-> "_calculate_consensus", args |-> <<values>>,
                   ret |-> _calculate_consensus(values)]
    /\ UNCHANGED <<app_vars, tolerance_percent, pc, fred_data, wb_data, oecd_data, result, exc,
                   raised_in, unexpected, again, api_key, http, fetch>>

Call_determine_confidence ==
    /\ fn = "none"
    /\ \E fred_val \in OptionalValues, wb_val \in OptionalValues, oecd_val \in OptionalValues :
          call' = [fn |-> "_determine_confidence", args |-> <<fred_val, wb_val, oecd_val>>,
                   ret |-> _determine_confidence(fred_val, wb_val, oecd_val)]
    /\ UNCHANGED <<app_vars, tolerance_percent, pc, fred_data, wb_data, oecd_data, result, exc,
                   raised_in, unexpected, again, api_key, http, fetch>>

\* what a fetch of the app returns: _empty_datapoint, or a value with its period
AppPoints ==
    {[value |-> None, period |-> "N/A"]}
    \cup {[value |-> Some(x), period |-> q] : x \in UnitValues, q \in {"2023", "2024"}}

\* DataFetcher.triangulate on the three data points its fetches returned
Call_DataFetcher_triangulate ==
    /\ fn = "none"
    /\ \E fred \in AppPoints, wb \in AppPoints, oecd \in AppPoints :
          call' = [fn |-> "DataFetcher.triangulate", args |-> <<fred, wb, oecd>>,
                   ret |-> DataFetcher_triangulate(fred, wb, oecd)]
    /\ UNCHANGED <<app_vars, tolerance_percent, pc, fred_data, wb_data, oecd_data, result, exc,
                   raised_in, unexpected, again, api_key, http, fetch>>

NextUnit ==
    \/ Call_values_agree
    \/ Call_calculate_consensus
    \/ Call_determine_confidence
    \/ Call_DataFetcher_triangulate

SpecUnit == InitUnit /\ [][NextUnit]_vars

----------------------------------------------------------------------------
(* The same call on two engines that differ in tolerance_percent only: one   *)
(* call as above, then a second engine constructed with another tolerance,   *)
(* then the same call on it.                                                 *)

\* the data point of a client that returns the value and nothing else
ValuePoint(source, value) == MacroDataPoint(source, value, "N/A", None)

\* triangulate on an engine whose three clients return these values
Call_triangulate ==
    /\ fn = "none"
    /\ \E fred_val \in OptionalValues, wb_val \in OptionalValues, oecd_val \in OptionalValues :
          call' = [fn |-> "triangulate", args |-> <<fred_val, wb_val, oecd_val>>,
                   ret |-> TriangulatedResult(ValuePoint("FRED", fred_val),
                                              ValuePoint("World Bank", wb_val),
                                              ValuePoint("OECD", oecd_val))]
    /\ UNCHANGED <<app_vars, tolerance_percent, pc, fred_data, wb_data, oecd_data, result, exc,
                   raised_in, unexpected, again, api_key, http, fetch>>

\* TriangulationEngine(tolerance_percent = t): a second engine is constructed
\* for the call that was made; earlier keeps that call and its engine's
\* tolerance
Construct_engine ==
    /\ fn \in {"_values_agree", "triangulate"}
    /\ \E t \in UnitTolerances :
          /\ tolerance_percent' = t
          /\ call' = [fn |-> "TriangulationEngine", args |-> <<t>>, ret |-> None,
                      earlier |-> [tolerance_percent |-> tolerance_percent,
                                   fn |-> fn, args |-> args, ret |-> ret]]
    /\ UNCHANGED <<app_vars, pc, fred_data, wb_data, oecd_data, result, exc,
                   raised_in, unexpected, again, api_key, http, fetch>>

\* the earlier _values_agree call, made on the new engine
Again_values_agree ==
    /\ fn = "TriangulationEngine"
    /\ call.earlier.fn = "_values_agree"
    /\ call' = [call EXCEPT !.fn = "_values_agree",
                            !.args = call.earlier.args,
                            !.ret = _values_agree(call.earlier.args[1], call.earlier.args[2])]
    /\ UNCHANGED <<app_vars, tolerance_percent, pc, fred_data, wb_data, oecd_data, result, exc,
                   raised_in, unexpected, again, api_key, http, fetch>>

\* the earlier triangulate call, made on the new engine
Again_triangulate ==
    /\ fn = "TriangulationEngine"
    /\ call.earlier.fn = "triangulate"
    /\ call' = [call EXCEPT !.fn = "triangulate",
                            !.args = call.earlier.args,
                            !.ret = TriangulatedResult(
                                        ValuePoint("FRED", call.earlier.args[1]),
                                        ValuePoint("World Bank", call.earlier.args[2]),
                                        ValuePoint("OECD", call.earlier.args[3]))]
    /\ UNCHANGED <<app_vars, tolerance_percent, pc, fred_data, wb_data, oecd_data, result, exc,
                   raised_in, unexpected, again, api_key, http, fetch>>

NextTolerance ==
    \/ Call_values_agree
    \/ Call_triangulate
    \/ Construct_engine
    \/ Again_values_agree
    \/ Again_triangulate

SpecTolerance == InitUnit /\ [][NextTolerance]_vars

----------------------------------------------------------------------------
(* One call of the fetch layer, request by request: either a direct call of  *)
(* RobustHTTPClient(max_retries = n).get, or the get call that a provider    *)
(* client's fetch_metric makes on the client it constructed.                 *)

\* the metric and country a fetch_metric call is made for: "BRA" has no entry
\* in COUNTRY_MAPPINGS, "EUU" has one whose OECD code differs from it
MetricInputs == {"gdp_growth", "interest_rate"}
CountryInputs == {"EUU", "BRA"}

InitFetch ==
    /\ tolerance_percent = 1
    /\ pc = "idle"
    /\ fred_data = None
    /\ wb_data = None
    /\ oecd_data = None
    /\ result = None
    /\ exc = "none"
    /\ raised_in = None
    /\ unexpected = {}
    /\ call = NoCall
    /\ again = FALSE
    /\ api_key = None
    /\ http = NoGet
    /\ fetch = NoFetch
    /\ gen = NoGen
    /\ chat = NoChat
    /\ llm = NoModel

\* RobustHTTPClient.__init__, called directly
Construct_http ==
    /\ http.pc = "new"
    /\ fetch.pc = "new"
    /\ \E max_retries \in 0..MaxRetries :
          http' = [NoGet EXCEPT !.pc = "idle", !.max_retries = max_retries]
    /\ UNCHANGED <<app_vars, tolerance_percent, pc, fred_data, wb_data, oecd_data, result, exc,
                   raised_in, unexpected, call, again, api_key, fetch>>

\* FREDClient.__init__, WorldBankClient.__init__, OECDClient.__init__ with
\* MacroDataClient.__init__: key is "api_key or os.getenv('FRED_API_KEY')"
Construct_client ==
    /\ http.pc = "new"
    /\ fetch.pc = "new"
    /\ \E client \in Providers, key \in {None, Some("key")} :
          /\ client # "FRED" => key = None
          /\ api_key' = key
          /\ fetch' = [NoFetch EXCEPT !.pc = "ready", !.client = client]
    /\ http' = [NoGet EXCEPT !.pc = "idle"]
    /\ UNCHANGED <<app_vars, tolerance_percent, pc, fred_data, wb_data, oecd_data, result, exc,
                   raised_in, unexpected, call, again>>

\* get entered without the sleep of line 40
get_begin_no_sleep ==
    [NoGet EXCEPT !.pc = "send", !.max_retries = http.max_retries,
                  !.total = http.max_retries]

\* get is entered: nothing is left of an earlier call, and the adapter will
\* start with Retry.total = max_retries
get_begin ==
    [NoGet EXCEPT !.pc = "sleep", !.max_retries = http.max_retries,
                  !.total = http.max_retries]

\* a direct call of get, the first or a later one
Call_get ==
    /\ http.pc \in {"idle", "returned", "failed"}
    /\ fetch.pc = "new"
    /\ http' = get_begin
    /\ UNCHANGED <<app_vars, tolerance_percent, pc, fred_data, wb_data, oecd_data, result, exc,
                   raised_in, unexpected, call, again, api_key, fetch>>

\* fetch_metric up to its call of self.http_client.get
Call_fetch_metric ==
    /\ fetch.pc = "ready"
    /\ \E metric \in MetricInputs, country_code \in CountryInputs :
          fetch' = [fetch EXCEPT
                       !.pc = "get",
                       !.metric = metric,
                       !.country_code = country_code,
                       !.request = IF fetch.client = "FRED"
                                   THEN FRED_request(metric, country_code)
                                   ELSE IF fetch.client = "World Bank"
                                   THEN WorldBank_request(metric, country_code)
                                   ELSE OECD_request(metric, country_code)]
    /\ http' = get_begin
    /\ UNCHANGED <<app_vars, tolerance_percent, pc, fred_data, wb_data, oecd_data, result, exc,
                   raised_in, unexpected, call, again, api_key>>

\* line 40: time.sleep(self.rate_limit_delay) returns
Sleep ==
    /\ http.pc = "sleep"
    /\ http' = [http EXCEPT !.pc = "send", !.slept = TRUE]
    /\ UNCHANGED <<app_vars, tolerance_percent, pc, fred_data, wb_data, oecd_data, result, exc,
                   raised_in, unexpected, call, again, api_key, fetch>>

\* what an answer leaves in the counters of the call
answered(answer) ==
    [http EXCEPT !.sent = http.sent + 1,
                 !.last = answer,
                 !.only_503 = http.only_503 /\ answer.status = 503,
                 !.timed_out = http.timed_out \/ answer.t = "timeout"]

\* Retry.increment giving up when no retry is left after this one
increment_off_by_one(answer, error) ==
    IF http.total - 1 <= 0
    THEN [answered(answer) EXCEPT !.pc = "failed", !.total = http.total - 1, !.error = error]
    ELSE [answered(answer) EXCEPT !.total = http.total - 1]

\* Retry.increment: one retry is used up; below zero the adapter gives up and
\* requests raises error
increment(answer, error) ==
    IF http.total - 1 < 0
    THEN [answered(answer) EXCEPT !.pc = "failed", !.total = http.total - 1, !.error = error]
    ELSE [answered(answer) EXCEPT !.total = http.total - 1]

\* what get does with the answer to one request, a timeout raising at once
after_answer_timeout_fatal(answer) ==
    IF answer.t = "timeout"
    THEN [answered(answer) EXCEPT !.pc = "failed", !.error = "ConnectTimeout"]
    ELSE IF is_retry(http.total, answer) THEN increment(answer, "RetryError")
    ELSE [answered(answer) EXCEPT
             !.pc = IF is_error_status(answer.status) THEN "failed" ELSE "returned",
             !.error = IF is_error_status(answer.status) THEN "HTTPError" ELSE ""]

\* what get does with the answer to one request: the adapter retries it, or
\* get goes on to raise_for_status and returns or raises
after_answer(answer) ==
    IF answer.t = "timeout" THEN increment(answer, "ConnectTimeout")
    ELSE IF is_retry(http.total, answer) THEN increment(answer, "RetryError")
    ELSE [answered(answer) EXCEPT
             !.pc = IF is_error_status(answer.status) THEN "failed" ELSE "returned",
             !.error = IF is_error_status(answer.status) THEN "HTTPError" ELSE ""]

\* one request is sent and answered
Send ==
    /\ http.pc = "send"
    /\ \E answer \in ServerAnswers : http' = after_answer(answer)
    /\ UNCHANGED <<app_vars, tolerance_percent, pc, fred_data, wb_data, oecd_data, result, exc,
                   raised_in, unexpected, call, again, api_key, fetch>>

\* fetch_metric of the client that was constructed
fetch_metric(client, response) ==
    IF client = "FRED" THEN FRED_fetch_metric(response)
    ELSE IF client = "World Bank" THEN WorldBank_fetch_metric(response)
    ELSE OECD_fetch_metric(response)

\* fetch_metric from the return of get (or its exception) to its own return
Return_fetch_metric ==
    /\ fetch.pc = "get"
    /\ http.pc \in {"returned", "failed"}
    /\ \E body \in IF http.pc = "returned" THEN Bodies ELSE {NoBody} :
          LET response == [ok |-> http.pc = "returned", error |-> http.error, data |-> body]
              out == fetch_metric(fetch.client, response)
          IN  fetch' = [fetch EXCEPT
                           !.pc = "done",
                           !.body = body,
                           !.ret = IF out.exc = "none" THEN Some(out.value) ELSE None,
                           !.exc = out.exc]
    /\ UNCHANGED <<app_vars, tolerance_percent, pc, fred_data, wb_data, oecd_data, result, exc,
                   raised_in, unexpected, call, again, api_key, http>>

NextFetch ==
    \/ Construct_http
    \/ Construct_client
    \/ Call_get
    \/ Call_fetch_metric
    \/ Sleep
    \/ Send
    \/ Return_fetch_metric

SpecFetch == InitFetch /\ [][NextFetch]_vars

----------------------------------------------------------------------------
(* DatasetGenerator.generate_dataset, one (country, metric) pair at a time.  *)
(* The engine's triangulate either returns a result or raises, as in Spec;   *)
(* the formatter's format_sample and format_multi_turn build strings from a  *)
(* result and do not raise.                                                  *)

\* the members of MetricType, in the order of the enum
AllMetrics == <<"gdp_growth", "inflation", "unemployment", "interest_rate">>

\* the countries and metrics arguments
CountryLists == {<<"USA">>, <<"USA", "IND">>}
MetricLists == {SubSeq(AllMetrics, 1, n) : n \in 0..MaxMetrics}

InitGenerate ==
    /\ tolerance_percent = 1
    /\ pc = "idle"
    /\ fred_data = None
    /\ wb_data = None
    /\ oecd_data = None
    /\ result = None
    /\ exc = "none"
    /\ raised_in = None
    /\ unexpected = {}
    /\ call = NoCall
    /\ again = FALSE
    /\ api_key = Some("key")
    /\ http = NoGet
    /\ fetch = NoFetch
    /\ gen = NoGen
    /\ chat = NoChat
    /\ llm = NoModel

\* where the loops stand when country i is entered
enter_country(g, i) ==
    [g EXCEPT !.i = i, !.j = 1, !.country_results = <<>>,
              !.pc = IF i > Len(g.countries) THEN "return"
                     ELSE IF g.metrics = <<>> THEN "multi_turn"
                     ELSE "pair"]

\* lines 51-54: generate_dataset is called
Call_generate_dataset ==
    /\ gen.pc = "idle"
    /\ \E countries \in CountryLists, metrics \in MetricLists,
          question_variants \in 0..MaxVariants, include_multi_turn \in BOOLEAN :
          gen' = enter_country([NoGen EXCEPT !.countries = countries,
                                             !.metrics = metrics,
                                             !.question_variants = question_variants,
                                             !.include_multi_turn = include_multi_turn], 1)
    /\ UNCHANGED <<pipeline_vars, chat, llm>>

\* lines 62-64: one sample per question variant
single_turn_samples(country, metric, question_variants) ==
    [variant \in 1..question_variants |->
        [kind |-> "single", country |-> country, metrics |-> <<metric>>,
         variant |-> variant - 1]]

\* lines 57-68 with "break" for "continue" in line 68
after_pair_break(raises) ==
    LET country == gen.countries[gen.i]
        metric == gen.metrics[gen.j]
    IN  IF raises
        THEN [gen EXCEPT !.raised = gen.raised \cup {<<gen.i, gen.j>>},
                         !.logged = Append(gen.logged, <<country, metric>>),
                         !.pc = "multi_turn"]
        ELSE [gen EXCEPT !.country_results = Append(gen.country_results, metric),
                         !.samples = gen.samples
                                     \o single_turn_samples(country, metric,
                                                            gen.question_variants),
                         !.j = gen.j + 1,
                         !.pc = IF gen.j + 1 > Len(gen.metrics) THEN "multi_turn" ELSE "pair"]

\* lines 57-68: the body of the loop over metrics; raises: triangulate raised
after_pair(raises) ==
    LET country == gen.countries[gen.i]
        metric == gen.metrics[gen.j]
        next == IF gen.j + 1 > Len(gen.metrics) THEN "multi_turn" ELSE "pair"
    IN  IF raises
        THEN [gen EXCEPT !.raised = gen.raised \cup {<<gen.i, gen.j>>},
                         !.logged = Append(gen.logged, <<country, metric>>),
                         !.j = gen.j + 1,
                         !.pc = next]
        ELSE [gen EXCEPT !.country_results = Append(gen.country_results, metric),
                         !.samples = gen.samples
                                     \o single_turn_samples(country, metric,
                                                            gen.question_variants),
                         !.j = gen.j + 1,
                         !.pc = next]

\* one (country, metric) pair is processed
Process_pair ==
    /\ gen.pc = "pair"
    /\ \E raises \in BOOLEAN : gen' = after_pair(raises)
    /\ UNCHANGED <<pipeline_vars, chat, llm>>

\* lines 70-75: the multi-turn sample of the country, then the next country
Multi_turn ==
    /\ gen.pc = "multi_turn"
    /\ gen' = enter_country(
                 IF gen.include_multi_turn /\ Len(gen.country_results) >= 2
                 THEN [gen EXCEPT !.samples =
                          Append(gen.samples,
                                 [kind |-> "multi", country |-> gen.countries[gen.i],
                                  metrics |-> gen.country_results, variant |-> 0])]
                 ELSE gen,
                 gen.i + 1)
    /\ UNCHANGED <<pipeline_vars, chat, llm>>

\* line 77
Return_samples ==
    /\ gen.pc = "return"
    /\ gen' = [gen EXCEPT !.pc = "returned"]
    /\ UNCHANGED <<pipeline_vars, chat, llm>>

NextGenerate == Call_generate_dataset \/ Process_pair \/ Multi_turn \/ Return_samples

SpecGenerate == InitGenerate /\ [][NextGenerate]_vars

----------------------------------------------------------------------------
(* The app: model_loader and ChatEngine, called one call after the other.    *)
(* What the environment decides is drawn: whether constructing Llama raises, *)
(* what the model call does, whether building the prompt raises.             *)

\* src/app/config.py: AppConfig.max_chat_history
max_chat_history == 10

ErrorOccurred == "Error occurred. Please try again."
CouldNotGenerate == "Could not generate response."
ChatFallback == "I couldn't generate a response. Please try rephrasing your question."
ChatError == "I encountered an error. Please try again. Error: ..."

\* constructing Llama (or downloading the model file) returns or raises
LoadOutcomes == {"ok", "raises"}
\* the model call returns a completion with text, one with blank text, a
\* result without choices[0]["text"], or raises
InferOutcomes == {"text", "blank", "malformed", "raises"}

\* load_llm_model, lines 43-65
load_llm_model(m, load) ==
    IF m.loaded
    THEN [m EXCEPT !.fn = "load_llm_model", !.ret = "", !.exc = "none", !.failed = FALSE,
                   !.attempted = FALSE]
    ELSE IF load = "raises"
    THEN [m EXCEPT !.fn = "load_llm_model", !.ret = "", !.exc = "RuntimeError",
                   !.failed = TRUE, !.attempted = TRUE, !.loads = 0]
    ELSE [m EXCEPT !.fn = "load_llm_model", !.ret = "", !.exc = "none", !.failed = FALSE,
                   !.attempted = TRUE, !.loaded = TRUE, !.loads = m.loads + 1]

\* lines 75-101, the body of the try: m is the state load_llm_model left
try_body(m, infer) ==
    IF m.exc # "none" THEN m
    ELSE IF infer = "raises" THEN [m EXCEPT !.exc = "RuntimeError", !.failed = TRUE]
    ELSE IF infer = "malformed" THEN [m EXCEPT !.exc = "KeyError", !.failed = TRUE]
    ELSE [m EXCEPT !.ret = IF infer = "blank" THEN CouldNotGenerate ELSE "text"]

\* lines 68-108 with the handler of lines 103-108 keeping _GLOBAL_MODEL
generate_response_keeps_model(m, load, infer) ==
    LET loaded == IF m.loaded THEN [m EXCEPT !.exc = "none", !.failed = FALSE,
                                             !.attempted = FALSE]
                  ELSE load_llm_model(m, load)
        body == [try_body(loaded, infer) EXCEPT !.fn = "generate_response"]
    IN  IF body.exc # "none"
        THEN [body EXCEPT !.exc = "none", !.ret = ErrorOccurred, !.loads = 0]
        ELSE body

\* lines 68-108 with "except RuntimeError" in line 103
generate_response_except_runtime(m, load, infer) ==
    LET loaded == IF m.loaded THEN [m EXCEPT !.exc = "none", !.failed = FALSE,
                                             !.attempted = FALSE]
                  ELSE load_llm_model(m, load)
        body == [try_body(loaded, infer) EXCEPT !.fn = "generate_response"]
    IN  IF body.exc = "RuntimeError"
        THEN [body EXCEPT !.exc = "none", !.ret = ErrorOccurred, !.loaded = FALSE,
                          !.loads = 0]
        ELSE body

\* generate_response, lines 68-108: every Exception of the body is caught
generate_response(m, load, infer) ==
    LET loaded == IF m.loaded THEN [m EXCEPT !.exc = "none", !.failed = FALSE,
                                             !.attempted = FALSE]
                  ELSE load_llm_model(m, load)
        body == [try_body(loaded, infer) EXCEPT !.fn = "generate_response"]
    IN  IF body.exc # "none"
        THEN [body EXCEPT !.exc = "none", !.ret = ErrorOccurred, !.loaded = FALSE,
                          !.loads = 0]
        ELSE body

InitChat ==
    /\ tolerance_percent = 1
    /\ pc = "idle"
    /\ fred_data = None
    /\ wb_data = None
    /\ oecd_data = None
    /\ result = None
    /\ exc = "none"
    /\ raised_in = None
    /\ unexpected = {}
    /\ call = NoCall
    /\ again = FALSE
    /\ api_key = Some("key")
    /\ http = NoGet
    /\ fetch = NoFetch
    /\ gen = NoGen
    /\ chat = NoChat
    /\ llm = NoModel

\* app.py line 72: the sidebar button loads the model
Call_load_llm_model ==
    /\ chat.pc = "idle"
    /\ \E load \in LoadOutcomes : llm' = load_llm_model(llm, load)
    /\ UNCHANGED <<pipeline_vars, gen, chat>>

\* app.py line 158: the page calls generate_response
Call_generate_response ==
    /\ chat.pc = "idle"
    /\ \E load \in LoadOutcomes, infer \in InferOutcomes :
          llm' = generate_response(llm, load, infer)
    /\ UNCHANGED <<pipeline_vars, gen, chat>>

ChatMessage(role, content) == [role |-> role, content |-> content]

\* chat_engine.py lines 115-123 and 144-146: intent and prompt; when they
\* raise, the handler returns; otherwise the user message is appended
Chat_generate_response ==
    /\ chat.pc = "idle"
    /\ Len(chat.history) < 2 * MaxExchanges
    /\ \E raises \in BOOLEAN :
          chat' = IF raises
                  THEN [chat EXCEPT !.ret = ChatError]
                  ELSE [chat EXCEPT !.pc = "generate",
                                    !.history = Append(chat.history,
                                                       ChatMessage("user", "message"))]
    /\ UNCHANGED <<pipeline_vars, gen, llm>>

\* chat_engine.py lines 126-146: model_loader.generate, the reply appended
Chat_generate ==
    /\ chat.pc = "generate"
    /\ \E load \in LoadOutcomes, infer \in InferOutcomes :
          LET m == generate_response(llm, load, infer)
              response == IF m.ret = "" THEN ChatFallback ELSE m.ret
          IN  /\ llm' = m
              /\ chat' = IF m.exc # "none"
                         THEN [chat EXCEPT !.pc = "idle", !.ret = ChatError]
                         ELSE [chat EXCEPT !.pc = "idle", !.ret = response,
                                           !.history = Append(chat.history,
                                                              ChatMessage("assistant",
                                                                          response))]
    /\ UNCHANGED <<pipeline_vars, gen>>

\* chat_engine.py lines 152-155
clear_history ==
    /\ chat.pc = "idle"
    /\ chat' = [chat EXCEPT !.history = <<>>]
    /\ UNCHANGED <<pipeline_vars, gen, llm>>

\* chat_engine.py lines 157-159: self.history[-max_chat_history:]
get_history ==
    LET n == Len(chat.history)
    IN  IF n <= max_chat_history THEN chat.history
        ELSE SubSeq(chat.history, n - max_chat_history + 1, n)

NextChat ==
    \/ Call_load_llm_model
    \/ Call_generate_response
    \/ Chat_generate_response
    \/ Chat_generate
    \/ clear_history

SpecChat == InitChat /\ [][NextChat]_vars

----------------------------------------------------------------------------
(* Properties *)

\* the result of the triangulate call that has returned
Returned == pc = "returned"
TheResult == result[1]

\* the values present in a result, in the order FRED, World Bank, OECD
PresentValues(r) ==
    LET some == SelectSeq(<<r.fred_value, r.worldbank_value, r.oecd_value>>, LAMBDA v : v # None)
    IN  [i \in 1..Len(some) |-> some[i][1]]

\* the number of pairs among three values that _values_agree accepts
AgreeingPairs(v) ==
    Cardinality({p \in {<<1, 2>>, <<1, 3>>, <<2, 3>>} : _values_agree(v[p[1]], v[p[2]])})

\* every provider's fetch failed in the fetch layer (a requests exception)
AllProvidersFailed ==
    \A d \in {fred_data, wb_data, oecd_data} :
        d # None /\ d[1].error \in {Some(e) : e \in RequestErrors}

\* C1: triangulate always returns a TriangulatedResult and never raises,
\* whatever the three providers do; when all three providers fail in the
\* fetch layer the result has confidence NO_DATA, no consensus_value and an
\* empty sources_used.
C1_TriangulateNeverRaises ==
    /\ pc # "raised"
    /\ (Returned /\ AllProvidersFailed) =>
          /\ TheResult.confidence = "NO_DATA"
          /\ TheResult.consensus_value = None
          /\ TheResult.sources_used = <<>>

\* the data point a client returned in the running call (None: none yet)
DataOf(source) ==
    IF source = "FRED" THEN fred_data
    ELSE IF source = "World Bank" THEN wb_data
    ELSE oecd_data

\* C2: a response body of unexpected shape makes fetch_metric of every
\* provider client return a data point with value absent and error set; no
\* exception leaves fetch_metric, and triangulate still returns a result.
C2_UnexpectedShapeGivesErrorPoint ==
    /\ raised_in = None
    /\ \A source \in unexpected :
          DataOf(source) # None =>
              DataOf(source)[1].value = None /\ DataOf(source)[1].error # None
    /\ unexpected # {} => pc # "raised"

\* C3: with three values, _determine_confidence returns HIGH if all three
\* pairs agree within tolerance, MEDIUM if exactly one or exactly two pairs
\* agree, LOW if no pair agrees.
C3_ThreeValuesConfidence ==
    (fn = "_determine_confidence" /\ \A i \in 1..3 : args[i] # None) =>
        LET n == AgreeingPairs(<<args[1][1], args[2][1], args[3][1]>>)
        IN  ret.confidence = IF n = 3 THEN "HIGH" ELSE IF n \in {1, 2} THEN "MEDIUM" ELSE "LOW"

\* three values of which exactly one pair agrees, classified
C3_Witness ==
    /\ fn = "_determine_confidence"
    /\ \A i \in 1..3 : args[i] # None
    /\ AgreeingPairs(<<args[1][1], args[2][1], args[3][1]>>) = 1
    /\ ret.confidence = "MEDIUM"

\* C4: when exactly two providers return a value, the confidence is MEDIUM if
\* the two values agree within tolerance and LOW otherwise, whichever provider
\* is the missing one.
C4_TwoValuesConfidence ==
    (Returned /\ Len(PresentValues(TheResult)) = 2) =>
        LET v == PresentValues(TheResult)
        IN  TheResult.confidence = IF _values_agree(v[1], v[2]) THEN "MEDIUM" ELSE "LOW"

\* World Bank and OECD agree, FRED is the missing one
C4_Witness ==
    /\ Returned
    /\ TheResult.fred_value = None
    /\ Len(PresentValues(TheResult)) = 2
    /\ TheResult.confidence = "MEDIUM"

\* C5: no value gives NO_DATA; exactly one value gives SINGLE_SOURCE and a
\* consensus_value equal to that value; for every tolerance.
C5_NoneAndSingle ==
    Returned =>
        LET v == PresentValues(TheResult)
        IN  /\ Len(v) = 0 => TheResult.confidence = "NO_DATA"
            /\ Len(v) = 1 => /\ TheResult.confidence = "SINGLE_SOURCE"
                             /\ TheResult.consensus_value = Some(v[1])

\* only the OECD returned a value
C5_Witness ==
    /\ Returned
    /\ TheResult.oecd_value # None
    /\ Len(PresentValues(TheResult)) = 1
    /\ TheResult.confidence = "SINGLE_SOURCE"

\* the k-th smallest element of a list, by counting
Below(xs, x) == Cardinality({i \in 1..Len(xs) : xs[i] < x})
NotAbove(xs, x) == Cardinality({i \in 1..Len(xs) : xs[i] <= x})
Kth(xs, k) ==
    CHOOSE x \in {xs[i] : i \in 1..Len(xs)} : Below(xs, x) < k /\ k <= NotAbove(xs, x)

\* the median of a non-empty list; twice it is an integer on the grid
Median(xs) ==
    LET n == Len(xs)
    IN  IF n % 2 = 1 THEN Kth(xs, (n + 1) \div 2)
        ELSE (Kth(xs, n \div 2) + Kth(xs, n \div 2 + 1)) \div 2

\* C6: _calculate_consensus returns the median of its values (the middle
\* element of the sorted list for an odd count, the average of the two middle
\* elements for an even count), the same for every permutation of the list.
C6_ConsensusIsMedian ==
    fn = "_calculate_consensus" =>
        LET xs == args[1]
        IN  /\ xs # <<>> => ret = Some(Median(xs))
            /\ \A p \in Permutations(1..Len(xs)) :
                   _calculate_consensus([i \in 1..Len(xs) |-> xs[p[i]]]) = ret

\* an unsorted list of three distinct values whose median is its last element
C6_Witness ==
    /\ fn = "_calculate_consensus"
    /\ Len(args[1]) = 3
    /\ args[1][2] < args[1][3]
    /\ args[1][3] < args[1][1]
    /\ ret = Some(args[1][3])

\* C7: in every result, consensus_value is present iff at least one of
\* fred_value, worldbank_value, oecd_value is present, iff confidence is not
\* NO_DATA.
C7_ConsensusIffSomeValue ==
    Returned =>
        LET some == \/ TheResult.fred_value # None
                    \/ TheResult.worldbank_value # None
                    \/ TheResult.oecd_value # None
        IN  /\ (TheResult.consensus_value # None) <=> some
            /\ (TheResult.consensus_value # None) <=> (TheResult.confidence # "NO_DATA")

\* the only value present is 0.0, and it is the consensus
C7_Witness ==
    /\ Returned
    /\ PresentValues(TheResult) = <<0>>
    /\ TheResult.consensus_value = Some(0)

\* C8: _values_agree(0, 0) is true for every tolerance; with exactly one
\* argument zero it is true exactly when the absolute value of the other is at
\* most tolerance_percent.
C8_ZeroHandling ==
    fn = "_values_agree" =>
        LET a == args[1]
            b == args[2]
        IN  /\ (a = 0 /\ b = 0) => ret = TRUE
            /\ ((a = 0) # (b = 0)) => (ret <=> abs(IF a = 0 THEN b ELSE a) <= tolerance_percent)

\* 0 and 1.0 agree at tolerance 1.0, though they differ by 200 percent
C8_Witness ==
    /\ fn = "_values_agree"
    /\ args = <<0, 2>>
    /\ tolerance_percent = 2
    /\ ret = TRUE

\* C9: _values_agree is symmetric, for values of either sign and zero.
C9_AgreeSymmetric ==
    fn = "_values_agree" => (ret <=> _values_agree(args[2], args[1]))

\* a negative and a positive value of different size that agree
C9_Witness ==
    /\ fn = "_values_agree"
    /\ args[1] < 0
    /\ args[2] > 0
    /\ abs(args[1]) # args[2]
    /\ ret = TRUE

\* C10: sources_used lists exactly the providers whose value is present, each
\* once, in the order FRED, World Bank, OECD.
C10_SourcesUsed ==
    Returned =>
        LET present(source) ==
                IF source = "FRED" THEN TheResult.fred_value # None
                ELSE IF source = "World Bank" THEN TheResult.worldbank_value # None
                ELSE TheResult.oecd_value # None
        IN  TheResult.sources_used = SelectSeq(<<"FRED", "World Bank", "OECD">>, present)

\* FRED and World Bank returned values, the OECD did not
C10_Witness ==
    /\ Returned
    /\ TheResult.oecd_value = None
    /\ TheResult.sources_used = <<"FRED", "World Bank">>

----------------------------------------------------------------------------
(* Properties of the fetch layer and of the provider clients *)

\* the fetch_metric call has been made / has returned or raised
FetchCalled == fetch.pc \in {"get", "done"}
FetchDone == fetch.pc = "done"
\* the data point fetch_metric returned
TheDataPoint == fetch.ret[1]

\* the provider has no entry for the metric and country in the mapping tables:
\* no series id of its own for FRED, no provider code for the other two
NoMappingEntry(client, metric, country_code) ==
    IF client = "FRED" THEN country_code \notin DOMAIN METRIC_MAPPINGS[metric].fred
    ELSE IF client = "World Bank" THEN "wb" \notin DOMAIN country_info_of(country_code)
    ELSE "oecd" \notin DOMAIN country_info_of(country_code)

\* a data point that says the provider has no series
IsNoSeries(d) == d.value = None /\ d.error = Some("no series for this source")

\* C11: a provider without a mapping entry for the requested metric and
\* country returns a data point with value absent and a "no series" reason,
\* and no request goes through the fetch layer.
C11_MissingSeriesPassthrough ==
    (FetchCalled /\ NoMappingEntry(fetch.client, fetch.metric, fetch.country_code)) =>
        /\ http.sent = 0
        /\ FetchDone => (fetch.ret # None /\ IsNoSeries(TheDataPoint))

\* the get call is over
GetOver == http.pc \in {"returned", "failed"}

\* C12: with max_retries = n, a get call whose every request is answered with
\* HTTP 503 sends exactly n + 1 requests and then fails; never more than n + 1.
C12_RetryExhaustion ==
    /\ (GetOver /\ http.only_503) => (http.sent = http.max_retries + 1 /\ http.pc = "failed")
    /\ (http.pc = "send" /\ http.only_503) => http.sent <= http.max_retries

\* max_retries = 2: the third 503 ends the call with RetryError
C12_Witness ==
    /\ fetch.pc = "new"
    /\ http.max_retries = 2
    /\ http.only_503
    /\ http.sent = 3
    /\ http.pc = "failed"
    /\ http.error = "RetryError"

\* C13: get sends a request again after an error response only when its
\* status is one of 429, 500, 502, 503, 504; after any other error status no
\* further request is sent and get fails at once, with one request sent if it
\* was the first answer.
C13_RetryOnlyAllowList ==
    /\ (http.pc = "send" /\ http.last.t = "response") => http.last.status \in status_forcelist
    /\ (http.last.t = "response" /\ is_error_status(http.last.status)
            /\ http.last.status \notin status_forcelist) =>
          /\ http.pc = "failed"
          /\ http.total = http.max_retries => http.sent = 1

\* C14: when get fails, fetch_metric of every provider client returns a data
\* point with value absent, period "N/A" and error set to the failure reason;
\* no exception leaves fetch_metric.
C14_FetchFailureGivesErrorPoint ==
    (FetchDone /\ http.pc = "failed") =>
        /\ fetch.exc = "none"
        /\ fetch.ret # None
        /\ TheDataPoint.value = None
        /\ TheDataPoint.period = "N/A"
        /\ TheDataPoint.error = Some(http.error)

\* the OECD client after the retries of its client were used up on 5xx answers
C14_Witness ==
    /\ FetchDone
    /\ fetch.client = "OECD"
    /\ http.sent = DefaultMaxRetries + 1
    /\ http.error = "RetryError"
    /\ TheDataPoint.error = Some("RetryError")

\* a data point with the same value and nothing else: no period, no error
ValueOnly(d) == MacroDataPoint(d.source, d.value, "N/A", None)

\* C15: confidence, consensus_value, explanation and sources_used of a result
\* are those of the call in which every provider returned the same value (or
\* none) and no reason, whatever reason or error text came with an absent value.
C15_FailedLikeNoSeries ==
    Returned =>
        LET r == TriangulatedResult(ValueOnly(fred_data[1]), ValueOnly(wb_data[1]),
                                    ValueOnly(oecd_data[1]))
        IN  /\ TheResult.confidence = r.confidence
            /\ TheResult.consensus_value = r.consensus_value
            /\ TheResult.explanation = r.explanation
            /\ TheResult.sources_used = r.sources_used

\* FRED failed in the fetch layer, the World Bank had only null values, the
\* OECD answered
C15_Witness ==
    /\ Returned
    /\ fred_data[1].error = Some("Timeout")
    /\ wb_data[1].error = Some("All values are null")
    /\ TheResult.sources_used = <<"OECD">>
    /\ TheResult.confidence = "SINGLE_SOURCE"

\* C16: every data point fetch_metric returns has either a value and no
\* error, or no value and an error that explains the absence.
C16_ValueXorReason ==
    (FetchDone /\ fetch.ret # None) =>
        \/ (TheDataPoint.value # None /\ TheDataPoint.error = None)
        \/ (TheDataPoint.value = None /\ TheDataPoint.error # None)

\* the call to a provider is in progress / has been issued
InProgress(source) ==
    \/ (source = "FRED" /\ pc = "fetch_fred")
    \/ (source = "World Bank" /\ pc = "fetch_wb")
    \/ (source = "OECD" /\ pc = "fetch_oecd")
Issued(source) ==
    \/ InProgress(source)
    \/ DataOf(source) # None
    \/ raised_in = Some(source)

\* C17: the three provider calls are issued concurrently: while the call to
\* one provider is in progress, the calls to the other two have been issued.
C17_ConcurrentFetches ==
    \A source \in Providers : InProgress(source) => \A other \in Providers : Issued(other)

\* C18: without a FRED API key the FRED client is constructed all the same,
\* and its fetch_metric returns a data point with value absent and a "no
\* series" reason without sending a request.
C18_NoKeyNoRequest ==
    (fetch.client = "FRED" /\ api_key = None) =>
        /\ fetch.pc # "new"
        /\ FetchCalled => http.sent = 0
        /\ FetchDone => (fetch.ret # None /\ IsNoSeries(TheDataPoint))

\* C19: a triangulate call leaves tolerance_percent and the provider clients
\* unchanged; it starts with nothing left of the calls before it, and what it
\* returns is the result for the data points of this call alone.
C19_NoStateAcrossCalls ==
    [][/\ tolerance_percent' = tolerance_percent
       /\ api_key' = api_key
       /\ http' = http
       /\ pc' = "fetch_fred" =>
             /\ fred_data' = None /\ wb_data' = None /\ oecd_data' = None
             /\ result' = None /\ exc' = "none" /\ raised_in' = None
       /\ pc' = "returned" =>
             result' = Some(TriangulatedResult(fred_data'[1], wb_data'[1], oecd_data'[1]))
      ]_vars

\* a call that was not the engine's first has returned a result
C19_Witness ==
    /\ Returned
    /\ again
    /\ TheResult.confidence = "LOW"

\* the provider's marker for a missing value
Marker(client) == IF client = "FRED" THEN "dot" ELSE "null"

\* the value of the most recent observation that is numeric (None: there is none)
RECURSIVE MostRecentValid(_)
MostRecentValid(observations) ==
    IF observations = <<>> THEN None
    ELSE IF Head(observations).value.t = "num" THEN Some(Head(observations).value.v)
    ELSE MostRecentValid(Tail(observations))

\* a body in which every observation is dated and holds a number or the marker
Regular(client, body) ==
    /\ body.t = "well_formed"
    /\ \A i \in 1..Len(body.obs) :
          /\ body.obs[i].value.t \in {"num", Marker(client)}
          /\ body.obs[i].date # None

\* C20: each provider client returns the most recent observation whose value
\* is numeric, skipping the observations that hold the provider's missing
\* marker; value is absent only if no observation has a numeric value.
C20_MostRecentValid ==
    (FetchDone /\ http.pc = "returned" /\ Regular(fetch.client, fetch.body)) =>
        /\ fetch.ret # None
        /\ TheDataPoint.value = MostRecentValid(fetch.body.obs)

----------------------------------------------------------------------------
(* Properties of the result: period, explanation, disagreement_details *)

\* the data points of the call that has returned
TheDataPoints == {fred_data[1], wb_data[1], oecd_data[1]}

\* the greatest of a non-empty set of period strings, in Python's string order
Greatest(periods) ==
    CHOOSE p \in periods : \A q \in periods : period_rank(q) <= period_rank(p)

\* C21: the period of the result is the greatest period string, other than
\* "N/A", among the data points that contributed a value, and "N/A" when there
\* is none; a provider that returned no value never determines the period.
C21_PeriodOfContributors ==
    Returned =>
        LET periods == {d.period : d \in {c \in TheDataPoints : c.value # None}} \ {"N/A"}
        IN  TheResult.period = IF periods # {} THEN Greatest(periods) ELSE "N/A"

\* the value a source had in a direct call of _determine_confidence
ValueOf(source) ==
    IF source = "FRED" THEN args[1][1]
    ELSE IF source = "World Bank" THEN args[2][1]
    ELSE args[3][1]

\* C22: with three values and confidence MEDIUM, the two sources the
\* explanation names as agreeing agree within tolerance, and the source it
\* names as differing agrees with neither of the other two.
C22_MediumNamesOutlier ==
    (fn = "_determine_confidence" /\ (\A i \in 1..3 : args[i] # None)
            /\ ret.confidence = "MEDIUM") =>
        LET named == ret.explanation.named
            differs == ret.explanation.differs[1]
        IN  /\ Len(named) = 2
            /\ _values_agree(ValueOf(named[1]), ValueOf(named[2]))
            /\ differs \notin {named[1], named[2]}
            /\ ~_values_agree(ValueOf(differs), ValueOf(named[1]))
            /\ ~_values_agree(ValueOf(differs), ValueOf(named[2]))

\* C27: in every result, disagreement_details is absent exactly when the
\* confidence is HIGH or MEDIUM; for LOW, SINGLE_SOURCE and NO_DATA it is the
\* explanation.
C27_DetailsIffNotAgreed ==
    Returned =>
        /\ (TheResult.disagreement_details = None) <=> (TheResult.confidence \in {"HIGH", "MEDIUM"})
        /\ TheResult.confidence \in {"LOW", "SINGLE_SOURCE", "NO_DATA"} =>
              TheResult.disagreement_details = Some(TheResult.explanation)

\* a result with one value: the details repeat the explanation
C27_Witness ==
    /\ Returned
    /\ TheResult.confidence = "SINGLE_SOURCE"
    /\ TheResult.disagreement_details = Some(TheResult.explanation)

----------------------------------------------------------------------------
(* Properties of RobustHTTPClient.get: the delay and the timeout *)

\* C23: no request of a get call, the first call on a new client included, is
\* sent before that call's wait of rate_limit_delay has completed.
C23_DelayBeforeFirstRequest ==
    /\ http.pc = "send" => http.slept
    /\ http.sent > 0 => http.slept

\* a direct get call on a new client has slept and sent its first request
C23_Witness ==
    /\ fetch.pc = "new"
    /\ http.slept
    /\ http.sent = 1
    /\ http.pc = "returned"

\* the step of Send in which the request got no answer within the timeout
TimeoutStep ==
    /\ http.pc = "send"
    /\ http'.sent = http.sent + 1
    /\ http'.last.t = "timeout"

\* C24: a request that times out is sent again while retries are left, the
\* response of a later successful attempt is returned, and get fails on a
\* timeout only when max_retries retries have been used.
C24_TimeoutIsRetried ==
    [][/\ (TimeoutStep /\ http.total > 0) => http'.pc = "send"
       /\ (TimeoutStep /\ http'.pc = "failed") =>
             /\ http'.sent = http.max_retries + 1
             /\ http'.total = -1
       /\ (http.pc = "send" /\ http.timed_out /\ http'.sent = http.sent + 1
              /\ http'.last.t = "response" /\ ~is_error_status(http'.last.status)) =>
             http'.pc = "returned"]_vars

\* max_retries = 2: two timeouts, then the third request is answered with 200
C24_Witness ==
    /\ http.max_retries = 2
    /\ http.timed_out
    /\ http.sent = 3
    /\ http.last.status = 200
    /\ http.pc = "returned"

----------------------------------------------------------------------------
(* Properties of the app's triangulation and of the tolerance *)

\* the values the app's fetches returned, in the order FRED, World Bank, OECD
AppValues == not_none(<<args[1].value, args[2].value, args[3].value>>)

\* C25: for one, two and three available values, the consensus value of
\* DataFetcher.triangulate equals the engine's: the median of the values.
C25_AppConsensusIsMedian ==
    (fn = "DataFetcher.triangulate" /\ Len(AppValues) >= 1) =>
        ret.consensus_value.num = ret.consensus_value.den * _calculate_consensus(AppValues)[1]

\* the order LOW < MEDIUM < HIGH; NO_DATA and SINGLE_SOURCE stand apart
Rank(confidence) ==
    IF confidence = "LOW" THEN 1
    ELSE IF confidence = "MEDIUM" THEN 2
    ELSE IF confidence = "HIGH" THEN 3
    ELSE 0

\* the call was made on two engines; Earlier is the call on the first
MadeAgain(name) == fn = name /\ "earlier" \in DOMAIN call
Earlier == call.earlier

\* C26: for fixed values, raising tolerance_percent keeps every agreement and
\* never lowers the confidence in the order LOW < MEDIUM < HIGH; NO_DATA,
\* SINGLE_SOURCE, consensus_value and sources_used are the same at every
\* tolerance.
C26_MonotoneInTolerance ==
    /\ (MadeAgain("_values_agree") /\ Earlier.tolerance_percent <= tolerance_percent) =>
          (Earlier.ret => ret)
    /\ (MadeAgain("triangulate") /\ Earlier.tolerance_percent <= tolerance_percent) =>
          Rank(Earlier.ret.confidence) <= Rank(ret.confidence)
    /\ MadeAgain("triangulate") =>
          /\ (Earlier.ret.confidence \in {"NO_DATA", "SINGLE_SOURCE"}
                 \/ ret.confidence \in {"NO_DATA", "SINGLE_SOURCE"}) =>
                ret.confidence = Earlier.ret.confidence
          /\ ret.consensus_value = Earlier.ret.consensus_value
          /\ ret.sources_used = Earlier.ret.sources_used

\* three values that disagreed at a small tolerance all agree at 200.0
C26_Witness ==
    /\ MadeAgain("triangulate")
    /\ args = <<Some(2), Some(4), Some(-2)>>
    /\ Earlier.tolerance_percent = 1
    /\ Earlier.ret.confidence = "LOW"
    /\ tolerance_percent = 400
    /\ ret.confidence = "HIGH"

----------------------------------------------------------------------------
(* Properties of the dataset generator and of the app *)

GenReturned == gen.pc = "returned"

\* the samples of one kind generated for country i whose metrics are these
SamplesOf(kind, i) ==
    {k \in 1..Len(gen.samples) :
        gen.samples[k].kind = kind /\ gen.samples[k].country = gen.countries[i]}

\* the metrics of country i that were processed without an exception
Succeeded(i) == {j \in 1..Len(gen.metrics) : <<i, j>> \notin gen.raised}

\* C28: generate_dataset isolates failures per (country, metric): a pair whose
\* processing raised is logged and yields nothing, every other pair yields
\* exactly question_variants single-turn samples, and a country gets one
\* multi-turn sample exactly when include_multi_turn is set and at least two
\* of its metrics succeeded.
C28_FailuresIsolatedPerPair ==
    GenReturned =>
        /\ Len(gen.logged) = Cardinality(gen.raised)
        /\ \A i \in 1..Len(gen.countries) :
              /\ \A j \in 1..Len(gen.metrics) :
                    LET singles == {k \in SamplesOf("single", i) :
                                       gen.samples[k].metrics = <<gen.metrics[j]>>}
                    IN  IF <<i, j>> \in gen.raised
                        THEN /\ singles = {}
                             /\ \E k \in 1..Len(gen.logged) :
                                   gen.logged[k] = <<gen.countries[i], gen.metrics[j]>>
                        ELSE /\ Cardinality(singles) = gen.question_variants
                             /\ {gen.samples[k].variant : k \in singles}
                                    = 0..(gen.question_variants - 1)
              /\ Cardinality(SamplesOf("multi", i))
                    = IF gen.include_multi_turn /\ Cardinality(Succeeded(i)) >= 2
                      THEN 1 ELSE 0
              /\ \A k \in SamplesOf("multi", i) :
                    gen.samples[k].metrics
                        = SelectSeq(gen.metrics,
                                    LAMBDA metric :
                                        \E j \in Succeeded(i) : gen.metrics[j] = metric)

\* the first metric of the first country raised, the other two gave samples
\* and the multi-turn sample; the second country had one success and none
C28_Witness ==
    /\ GenReturned
    /\ gen.include_multi_turn
    /\ gen.question_variants = 2
    /\ Len(gen.metrics) = 3
    /\ gen.raised = {<<1, 1>>, <<2, 2>>, <<2, 3>>}
    /\ Len(gen.samples) = 7

\* user and assistant messages alternate, the first is a user message and the
\* last an assistant message
CompleteExchanges(history) ==
    /\ Len(history) % 2 = 0
    /\ \A k \in 1..Len(history) :
          history[k].role = IF k % 2 = 1 THEN "user" ELSE "assistant"

\* C29: after any sequence of generate_response and clear_history calls, failed
\* ones included, the history is a sequence of complete exchanges: every user
\* message is followed by one assistant message.
C29_HistoryOfCompleteExchanges ==
    chat.pc = "idle" =>
        /\ CompleteExchanges(chat.history)
        /\ CompleteExchanges(get_history)

\* more exchanges than get_history returns, the last of them after a failure
\* of the model
C29_Witness ==
    /\ chat.pc = "idle"
    /\ Len(chat.history) = 2 * MaxExchanges
    /\ chat.history[Len(chat.history)].content = ErrorOccurred
    /\ chat.ret = ErrorOccurred

\* a call of generate_response has just been made
GenerateResponseStep == llm' # llm /\ llm'.fn = "generate_response"

\* C30: generate_response never raises; on a load or inference failure it
\* returns the error string and leaves the model unloaded, so that the next
\* call loads afresh; without a failure the model is loaded at most once.
C30_GenerateResponseRecovers ==
    [][/\ GenerateResponseStep =>
             /\ llm'.exc = "none"
             /\ llm'.failed => (llm'.ret = ErrorOccurred /\ ~llm'.loaded)
             /\ ~llm'.failed => (llm'.ret # ErrorOccurred /\ llm'.loaded)
             /\ ~llm.loaded => llm'.attempted
             /\ llm.loaded => ~llm'.attempted
       /\ llm'.loads <= 1
       /\ llm'.loaded => llm'.loads = 1]_vars

\* the loaded model failed in a call: the error string, and no model
C30_Witness ==
    /\ llm.fn = "generate_response"
    /\ llm.failed
    /\ ~llm.attempted
    /\ llm.ret = ErrorOccurred
    /\ ~llm.loaded

====
